---- MODULE Spec2Model ----
(***************************************************************************)
(* Multi-engine OCR orchestration and field reconciliation                 *)
(* (src/ocr_engine.py): the engine registry, the per-engine pipeline, the  *)
(* field extractor and the voting reconciler.                              *)
(*                                                                         *)
(* Representation.  A Python str is a sequence of one-character strings.   *)
(* A Python dict is the sequence of its items [k |-> key, v |-> value] in  *)
(* insertion order.  A confidence c is the integer 1000 * c (thousandths), *)
(* so 0.0 is 0 and 1.0 is ConfidenceDivisor.  An exception is a record     *)
(* [type, msg]; a call's outcome is [tag |-> "return", value |-> ...] or   *)
(* [tag |-> "raise", exc |-> ...].                                         *)
(***************************************************************************)
EXTENDS Integers, Sequences, FiniteSets, TLC

VARIABLES
    engines,       \* OCRProcessor.engines: the registry (dict name -> adapter)
    pc,            \* position of the caller: idle, or inside process_all
    image,         \* the image_path argument of the call in progress / last call
    idx,           \* process_all: index of the next item of self.engines.items()
    results,       \* process_all: the local dict `results`
    requested,     \* the engine_name argument of process_single ("" otherwise)
    ret,           \* outcome of the last finished call
    ran            \* names of the engines whose process_image ran in that call

vars == <<engines, pc, image, requested, idx, results, ret, ran>>

----------------------------------------------------------------------------
(* Characters and str methods                                              *)

UpperSeq ==
    <<"A","B","C","D","E","F","G","H","I","J","K","L","M","N","O","P","Q",
    "R","S","T","U","V","W","X","Y","Z">>

LowerSeq ==
    <<"a","b","c","d","e","f","g","h","i","j","k","l","m","n","o","p","q",
    "r","s","t","u","v","w","x","y","z">>

Upper == {UpperSeq[i] : i \in 1..Len(UpperSeq)}

Letter == Upper \cup {LowerSeq[i] : i \in 1..Len(LowerSeq)}

Digit == {"0","1","2","3","4","5","6","7","8","9"}

AlNum == Letter \cup Digit

\* \s of the re module and the characters str.strip() removes
Space == {" ", "\n", "\t", "\r"}

LowerMap ==
    [c \in Upper |-> LowerSeq[CHOOSE i \in 1..Len(UpperSeq) : UpperSeq[i] = c]]

UpperMap ==
    [c \in Letter \ Upper |->
        UpperSeq[CHOOSE i \in 1..Len(LowerSeq) : LowerSeq[i] = c]]

\* str.lower() on one character
LowerChar(c) == IF c \in Upper THEN LowerMap[c] ELSE c

\* str.upper() on one character
UpperChar(c) == IF c \in Letter /\ c \notin Upper THEN UpperMap[c] ELSE c

\* str.lower()
Lower(s) == [i \in 1..Len(s) |-> LowerChar(s[i])]

\* str.upper()
ToUpper(s) == [i \in 1..Len(s) |-> UpperChar(s[i])]

\* s[a-1 : b] of Python: the characters at positions a..b (1-based)
Slice(s, a, b) == IF a > b THEN <<>> ELSE SubSeq(s, a, b)

\* the first position >= p whose character is not in C (Len(s) + 1 if none)
RECURSIVE RunEnd(_, _, _)
RunEnd(s, p, C) ==
    IF p > Len(s) \/ s[p] \notin C THEN p ELSE RunEnd(s, p + 1, C)

\* the last position <= p whose character is not in C (0 if none)
RECURSIVE RunStart(_, _, _)
RunStart(s, p, C) ==
    IF p < 1 \/ s[p] \notin C THEN p ELSE RunStart(s, p - 1, C)

\* str.strip()
Strip(s) ==
    LET a == RunEnd(s, 1, Space)
    IN  IF a > Len(s) THEN <<>> ELSE SubSeq(s, a, RunStart(s, Len(s), Space))

\* len(s.split()): the number of maximal runs of non-whitespace characters
SplitCount(s) ==
    Cardinality({i \in 1..Len(s) :
                    /\ s[i] \notin Space
                    /\ (i = 1 \/ s[i-1] \in Space)})

\* s.split('\n'): the list of lines
SplitLines(s) ==
    LET nl    == {i \in 1..Len(s) : s[i] = "\n"}
        start == {1} \cup {i + 1 : i \in nl}
        n     == Cardinality(start)
        \* the k-th smallest start
        nth(k) == CHOOSE a \in start : Cardinality({b \in start : b < a}) = k - 1
        stop(a) == IF \E i \in nl : i >= a
                   THEN (CHOOSE i \in nl : i >= a /\ \A j \in nl : j >= a => i <= j) - 1
                   ELSE Len(s)
    IN  [k \in 1..n |-> Slice(s, nth(k), stop(nth(k)))]

\* keyword in line (substring test)
Contains(s, w) ==
    \E i \in 1..(Len(s) - Len(w) + 1) : SubSeq(s, i, i + Len(w) - 1) = w

----------------------------------------------------------------------------
(* dict                                                                    *)

DictHas(d, k) == \E i \in 1..Len(d) : d[i].k = k

DictIndex(d, k) == CHOOSE i \in 1..Len(d) : d[i].k = k

\* d[k]
DictGet(d, k) == d[DictIndex(d, k)].v

\* d.get(k, default)
DictGetOr(d, k, default) == IF DictHas(d, k) THEN DictGet(d, k) ELSE default

\* d[k] = v: replaces in place, or appends a new item
DictPut(d, k, v) ==
    IF DictHas(d, k)
    THEN [d EXCEPT ![DictIndex(d, k)] = [k |-> k, v |-> v]]
    ELSE Append(d, [k |-> k, v |-> v])

\* list(d.keys())
DictKeys(d) == [i \in 1..Len(d) |-> d[i].k]

KeySet(d) == {d[i].k : i \in 1..Len(d)}

----------------------------------------------------------------------------
(* re.search(pattern, text, re.IGNORECASE) for the patterns of             *)
(* parse_id_card_fields.  A pattern is an operator At(t, i) telling        *)
(* whether the pattern matches starting at position i, where the match     *)
(* stops and where group 1 lies; re.search takes the leftmost i.  A greedy *)
(* C* from p stops at RunEnd(t, p, C).                                     *)

NoMatchAt == [ok |-> FALSE, stop |-> 0, gs |-> 0, ge |-> 0]

MatchAt(stop, gs, ge) == [ok |-> TRUE, stop |-> stop, gs |-> gs, ge |-> ge]

NoMatch == [ok |-> FALSE, g0 |-> <<>>, g1 |-> <<>>]

\* the literal w (given in lower case) at position i, ignoring case
LitAt(t, i, w) ==
    /\ i >= 1
    /\ i + Len(w) - 1 <= Len(t)
    /\ \A k \in 1..Len(w) : LowerChar(t[i + k - 1]) = w[k]

\* \d{n} at position p
DigitsAt(t, p, n) ==
    /\ p + n - 1 <= Len(t)
    /\ \A k \in 0..(n - 1) : t[p + k] \in Digit

\* [:\s]
ColonSpace == Space \cup {":"}

\* re.search: leftmost match; g0 is group(0), g1 is group(1)
Search(t, At(_, _)) ==
    LET hits == {i \in 1..Len(t) : At(t, i).ok}
    IN  IF hits = {} THEN NoMatch
        ELSE LET i == CHOOSE a \in hits : \A b \in hits : a <= b
                 m == At(t, i)
             IN  [ok |-> TRUE,
                  g0 |-> Slice(t, i, m.stop - 1),
                  g1 |-> Slice(t, m.gs, m.ge - 1)]

\* label[:\s]*body : the label, a greedy [:\s]*, then the body at p
Labeled(t, i, label, Body(_, _)) ==
    IF LitAt(t, i, label)
    THEN Body(t, RunEnd(t, i + Len(label), ColonSpace))
    ELSE NoMatchAt

\* [A-Za-z]\d{7}  (no group)
IdBareAt(t, i) ==
    IF i <= Len(t) /\ t[i] \in Letter /\ DigitsAt(t, i + 1, 7)
    THEN MatchAt(i + 8, 0, 0)
    ELSE NoMatchAt

IdMinLen == 6

IdMaxLen == 10

\* ([A-Za-z0-9]{6,10}) at p
IdBody(t, p) ==
    LET q == RunEnd(t, p, AlNum)
        e == IF q - p > IdMaxLen THEN p + IdMaxLen ELSE q
    IN  IF q - p >= IdMinLen THEN MatchAt(e, p, e) ELSE NoMatchAt

\* ID[:\s]*([A-Za-z0-9]{6,10})
IdLabelAt(t, i) == Labeled(t, i, <<"i","d">>, IdBody)

\* ID\s*No[:\s]*([A-Za-z0-9]{6,10})
IdNoLabelAt(t, i) ==
    IF LitAt(t, i, <<"i","d">>)
    THEN LET s == RunEnd(t, i + 2, Space)
         IN  IF LitAt(t, s, <<"n","o">>)
             THEN IdBody(t, RunEnd(t, s + 2, ColonSpace))
             ELSE NoMatchAt
    ELSE NoMatchAt

\* [A-Z][a-z]+ under IGNORECASE: a run of two or more letters from p;
\* the result is the position after it, or 0
WordEnd(t, p) ==
    LET q == RunEnd(t, p, Letter) IN IF q - p >= 2 THEN q ELSE 0

\* \s+ from p: the position after it, or 0
GapEnd(t, p) ==
    LET q == RunEnd(t, p, Space) IN IF q > p THEN q ELSE 0

\* ([A-Z][a-z]+\s+[A-Z][a-z]+\s+[A-Z][a-z]+) at p
NameBody(t, p) ==
    LET a == WordEnd(t, p)
        b == IF a = 0 THEN 0 ELSE GapEnd(t, a)
        c == IF b = 0 THEN 0 ELSE WordEnd(t, b)
        d == IF c = 0 THEN 0 ELSE GapEnd(t, c)
        e == IF d = 0 THEN 0 ELSE WordEnd(t, d)
    IN  IF e = 0 THEN NoMatchAt ELSE MatchAt(e, p, e)

NameAt(t, i) == Labeled(t, i, <<"n","a","m","e">>, NameBody)

FullNameAt(t, i) ==
    Labeled(t, i, <<"f","u","l","l"," ","n","a","m","e">>, NameBody)

\* [A-Za-z\s&(),.-]
DeptClass == Letter \cup Space \cup {"&", "(", ")", ",", ".", "-"}

\* label[:\s]*([A-Za-z\s&(),.-]+): the class shares \s with [:\s]*, so when
\* nothing of the class follows the greedy [:\s]*, the matcher backtracks
\* and the group takes the last whitespace character of the [:\s]* run
DeptLabeled(t, i, label) ==
    IF LitAt(t, i, label)
    THEN LET l    == i + Len(label)
             p    == RunEnd(t, l, ColonSpace)
             q    == RunEnd(t, p, DeptClass)
             back == {g \in l..(p - 1) : t[g] \in Space}
         IN  IF q > p THEN MatchAt(q, p, q)
             ELSE IF back # {}
             THEN LET g == CHOOSE a \in back : \A b \in back : b <= a
                  IN  MatchAt(g + 1, g, g + 1)
             ELSE NoMatchAt
    ELSE NoMatchAt

DepartmentAt(t, i) ==
    DeptLabeled(t, i, <<"d","e","p","a","r","t","m","e","n","t">>)

DeptAt(t, i) == DeptLabeled(t, i, <<"d","e","p","t">>)

YearDigits == 4

\* ([A-Za-z]+\s+\d{4}) at p
TermBody(t, p) ==
    LET a == RunEnd(t, p, Letter)
        b == IF a > p THEN GapEnd(t, a) ELSE 0
    IN  IF b # 0 /\ DigitsAt(t, b, YearDigits)
        THEN MatchAt(b + YearDigits, p, b + YearDigits)
        ELSE NoMatchAt

EnrollmentAt(t, i) ==
    Labeled(t, i, <<"e","n","r","o","l","l","m","e","n","t">>, TermBody)

SessionAt(t, i) == Labeled(t, i, <<"s","e","s","s","i","o","n">>, TermBody)

Seasons ==
    { <<"s","p","r","i","n","g">>, <<"f","a","l","l">>,
      <<"a","u","t","u","m","n">>, <<"s","u","m","m","e","r">>,
      <<"w","i","n","t","e","r">> }

\* (Spring|Fall|Autumn|Summer|Winter)\s+\d{4}
SeasonAt(t, i) ==
    IF \E w \in Seasons : LitAt(t, i, w)
    THEN LET w == CHOOSE x \in Seasons : LitAt(t, i, x)
             b == GapEnd(t, i + Len(w))
         IN  IF b # 0 /\ DigitsAt(t, b, YearDigits)
             THEN MatchAt(b + YearDigits, i, i + Len(w))
             ELSE NoMatchAt
    ELSE NoMatchAt

\* [A|B|AB|O] is a character class: one of A, B, O or the bar, any case
BloodClass == {"A", "B", "O", "a", "b", "o", "|"}

\* ([A|B|AB|O][+-]) at p
BloodBody(t, p) ==
    IF p + 1 <= Len(t) /\ t[p] \in BloodClass /\ t[p + 1] \in {"+", "-"}
    THEN MatchAt(p + 2, p, p + 2)
    ELSE NoMatchAt

BloodAt(t, i) == Labeled(t, i, <<"b","l","o","o","d">>, BloodBody)

BloodGroupAt(t, i) ==
    Labeled(t, i, <<"b","l","o","o","d"," ","g","r","o","u","p">>, BloodBody)

ValidAt(t, i) == Labeled(t, i, <<"v","a","l","i","d">>, TermBody)

ValidityAt(t, i) ==
    Labeled(t, i, <<"v","a","l","i","d","i","t","y">>, TermBody)

----------------------------------------------------------------------------
(* BaseOCREngine.parse_id_card_fields                                      *)

Fields ==
    <<"ID", "FullName", "University", "Department", "Enrollment",
      "BloodGroup", "Validity">>

FieldSet == {Fields[i] : i \in 1..Len(Fields)}

\* faulty variant: the labeled rules are tried before the bare code
ParseID_LabelFirst(t) ==
    LET m2 == Search(t, IdLabelAt) IN
    IF m2.ok THEN m2.g1
    ELSE LET m3 == Search(t, IdNoLabelAt) IN
         IF m3.ok THEN m3.g1
         ELSE LET m1 == Search(t, IdBareAt) IN
              IF m1.ok THEN m1.g0 ELSE <<>>

\* id_patterns loop: group(1) if the pattern has a group, else group(0)
ParseID(t) ==
    LET m1 == Search(t, IdBareAt) IN
    IF m1.ok THEN m1.g0
    ELSE LET m2 == Search(t, IdLabelAt) IN
         IF m2.ok THEN m2.g1
         ELSE LET m3 == Search(t, IdNoLabelAt) IN
              IF m3.ok THEN m3.g1 ELSE <<>>

\* name_patterns loop: a match counts only with two or more tokens
ParseFullName(t) ==
    LET m1 == Search(t, NameAt) IN
    IF m1.ok /\ SplitCount(m1.g1) >= 2 THEN m1.g1
    ELSE LET m2 == Search(t, FullNameAt) IN
         IF m2.ok /\ SplitCount(m2.g1) >= 2 THEN m2.g1 ELSE <<>>

UniKeywords ==
    { <<"u","n","i","v","e","r","s","i","t","y">>,
      <<"i","n","s","t","i","t","u","t","e">>,
      <<"c","o","l","l","e","g","e">> }

UniMinLen == 10

\* the first line holding a keyword and longer than 10 characters stripped
ParseUniversity(t) ==
    LET lines == SplitLines(t)
        good  == {k \in 1..Len(lines) :
                    /\ \E w \in UniKeywords : Contains(Lower(lines[k]), w)
                    /\ Len(Strip(lines[k])) > UniMinLen}
    IN  IF good = {} THEN <<>>
        ELSE Strip(lines[CHOOSE a \in good : \A b \in good : a <= b])

\* dept_patterns loop
ParseDepartment(t) ==
    LET m1 == Search(t, DepartmentAt) IN
    IF m1.ok THEN Strip(m1.g1)
    ELSE LET m2 == Search(t, DeptAt) IN
         IF m2.ok THEN Strip(m2.g1) ELSE <<>>

\* year_patterns loop: the whole match, group(0), is stored
ParseEnrollment(t) ==
    LET m1 == Search(t, EnrollmentAt) IN
    IF m1.ok THEN m1.g0
    ELSE LET m2 == Search(t, SessionAt) IN
         IF m2.ok THEN m2.g0
         ELSE LET m3 == Search(t, SeasonAt) IN
              IF m3.ok THEN m3.g0 ELSE <<>>

\* blood_patterns loop
ParseBloodGroup(t) ==
    LET m1 == Search(t, BloodAt) IN
    IF m1.ok THEN ToUpper(m1.g1)
    ELSE LET m2 == Search(t, BloodGroupAt) IN
         IF m2.ok THEN ToUpper(m2.g1) ELSE <<>>

\* validity_patterns loop: the whole match, group(0), is stored
ParseValidity(t) ==
    LET m1 == Search(t, ValidAt) IN
    IF m1.ok THEN m1.g0
    ELSE LET m2 == Search(t, ValidityAt) IN
         IF m2.ok THEN m2.g0 ELSE <<>>

parse_id_card_fields(t) ==
    << [k |-> "ID",         v |-> ParseID(t)],
       [k |-> "FullName",   v |-> ParseFullName(t)],
       [k |-> "University", v |-> ParseUniversity(t)],
       [k |-> "Department", v |-> ParseDepartment(t)],
       [k |-> "Enrollment", v |-> ParseEnrollment(t)],
       [k |-> "BloodGroup", v |-> ParseBloodGroup(t)],
       [k |-> "Validity",   v |-> ParseValidity(t)] >>

----------------------------------------------------------------------------
(* Outcomes of calls, exceptions, string constants of the source           *)

Return(v) == [tag |-> "return", value |-> v]

Raise(type, msg) == [tag |-> "raise", exc |-> [type |-> type, msg |-> msg]]

\* no call has finished yet
NoOutcome == [tag |-> "none"]

ErrorPrefix ==
    <<"E","r","r","o","r",":"," ">>

TesseractFailPrefix ==
    <<"T","e","s","s","e","r","a","c","t"," ","e","x","t","r","a","c","t",
    "i","o","n"," ","f","a","i","l","e","d",":"," ">>

EasyOCRFailPrefix ==
    <<"E","a","s","y","O","C","R"," ","e","x","t","r","a","c","t","i","o",
    "n"," ","f","a","i","l","e","d",":"," ">>

CouldNotReadFromMsg ==
    <<"C","o","u","l","d"," ","n","o","t"," ","r","e","a","d"," ","i","m",
    "a","g","e"," ","f","r","o","m"," ">>

CouldNotReadMsg ==
    <<"C","o","u","l","d"," ","n","o","t"," ","r","e","a","d"," ","i","m",
    "a","g","e">>

\* str(e) of the error Image.fromarray raises when handed None
FromArrayNoneMsg ==
    <<"'","N","o","n","e","T","y","p","e","'"," ","o","b","j","e","c","t",
    " ","h","a","s"," ","n","o"," ","a","t","t","r","i","b","u","t","e"," ",
    "'","_","_","a","r","r","a","y","_","i","n","t","e","r","f","a","c","e",
    "_","_","'">>

PaddleMsg ==
    <<"P","a","d","d","l","e","O","C","R"," ","d","i","s","a","b","l","e",
    "d"," ","(","r","e","q","u","i","r","e","s"," ","p","a","d","d","l","e",
    "p","a","d","d","l","e",")">>

OcropusMsg ==
    <<"U","s","i","n","g"," ","T","e","s","s","e","r","a","c","t"," ","a",
    "s"," ","f","a","l","l","b","a","c","k">>

NotFoundSentinel ==
    <<"N","o","t"," ","F","o","u","n","d">>

----------------------------------------------------------------------------
(* Images and the OCR backends.  An image (what image_path names) is a     *)
(* record: whether cv2.imread can decode it, whether a cv2 step after the  *)
(* decode throws, and what each backend does when handed it                *)
(* (pytesseract.image_to_string on the preprocessed image, and the joined  *)
(* text of easyocr's readtext): an outcome, a text or an exception.        *)

\* cv2.imread(image_path): the decoded array, or None
imread(img) == IF img.readable THEN "bgr" ELSE "None"

\* cv2.imread(image_path, cv2.IMREAD_GRAYSCALE)
imread_gray(img) == IF img.readable THEN "gray" ELSE "None"

\* BaseOCREngine.preprocess_image, the outcome of the call: every exception
\* of the try block, the ValueError of a failed decode included, is caught
\* and the call returns the grayscale re-read
preprocess_image(img) ==
    LET decoded == imread(img)
        body == IF decoded = "None"
                THEN Raise("ValueError", CouldNotReadFromMsg)
                ELSE IF img.cvThrows
                     THEN Raise("cv2.error", <<>>)
                     ELSE Return("denoised")
    IN  IF body.tag = "raise" THEN Return(imread_gray(img)) ELSE body

\* Image.fromarray(processed_img)
fromarray(arr) ==
    IF arr = "None"
    THEN Raise("AttributeError", FromArrayNoneMsg)
    ELSE Return("pil")

\* faulty variant: the except branch returns an empty text instead of raising
Rewrap_Swallow(outcome, prefix) ==
    IF outcome.tag = "raise" THEN Return(<<>>) ELSE outcome

\* except Exception as e: raise Exception(prefix + str(e))
Rewrap(outcome, prefix) ==
    IF outcome.tag = "raise"
    THEN Raise("Exception", prefix \o outcome.exc.msg)
    ELSE outcome

\* TesseractEngine.extract_text
TesseractExtractText(img) ==
    LET processed == preprocess_image(img)
        pil       == IF processed.tag = "raise" THEN processed
                     ELSE fromarray(processed.value)
        body      == IF pil.tag = "raise" THEN pil ELSE img.tess
    IN  Rewrap(body, TesseractFailPrefix)

\* EasyOCREngine.extract_text
EasyOCRExtractText(img) ==
    LET decoded == imread(img)
        body    == IF decoded = "None"
                   THEN Raise("ValueError", CouldNotReadMsg)
                   ELSE img.easy
    IN  Rewrap(body, EasyOCRFailPrefix)

----------------------------------------------------------------------------
(* Engine adapters.  An adapter is [kind, engine_name, msg]; kind selects  *)
(* the class (TesseractEngine, EasyOCREngine, DummyEngine).                *)

\* faulty variant: the adapter's name differs from its registry key
TesseractEngine_Misnamed ==
    [kind |-> "tesseract", engine_name |-> "Tesseract", msg |-> <<>>]

TesseractEngine == [kind |-> "tesseract", engine_name |-> "tesseract", msg |-> <<>>]

EasyOCREngine == [kind |-> "easy_ocr", engine_name |-> "easy_ocr", msg |-> <<>>]

\* OCRProcessor._create_dummy_engine
DummyEngine(name, msg) == [kind |-> "dummy", engine_name |-> name, msg |-> msg]

\* engine.extract_text(image_path), dispatched on the class
extract_text(engine, img) ==
    CASE engine.kind = "tesseract" -> TesseractExtractText(img)
      [] engine.kind = "easy_ocr"  -> EasyOCRExtractText(img)
      [] engine.kind = "dummy"     -> Return(engine.msg)

ConfidenceDivisor == 1000

Min(a, b) == IF a <= b THEN a ELSE b

\* faulty variant: the ratio is not capped at 1.0
DefaultConfidence_NoCap(text) == Len(Strip(text))

\* min(1.0, len(text.strip()) / 1000), in thousandths
DefaultConfidence(text) == Min(ConfidenceDivisor, Len(Strip(text)))

\* BaseOCREngine.extract_with_confidence; DummyEngine overrides it
extract_with_confidence(engine, img) ==
    IF engine.kind = "dummy"
    THEN Return([text |-> engine.msg, confidence |-> 0])
    ELSE \* text = self.extract_text(image_path): bound once
         CHOOSE r \in {IF t.tag = "raise" THEN t
                       ELSE Return([text |-> t.value,
                                    confidence |-> DefaultConfidence(t.value)]) :
                       t \in {extract_text(engine, img)}} : TRUE

EngineResult(raw_text, structured_data, confidence, name) ==
    [raw_text |-> raw_text, structured_data |-> structured_data,
     confidence |-> confidence, engine |-> name]

\* the dict built in an except branch: "Error: " + str(e), {} and 0.0
ErrorResult(exc, name) == EngineResult(ErrorPrefix \o exc.msg, <<>>, 0, name)

\* BaseOCREngine.process_image
BaseProcessImage(engine, img) ==
    LET ec == extract_with_confidence(engine, img)
    IN  IF ec.tag = "raise"
        THEN Return(ErrorResult(ec.exc, engine.engine_name))
        ELSE \* text, confidence = ...: the pair is bound once
             CHOOSE r \in {Return(EngineResult(tc.text,
                                                parse_id_card_fields(tc.text),
                                                tc.confidence,
                                                engine.engine_name)) :
                           tc \in {ec.value}} : TRUE

\* DummyEngine.process_image
DummyProcessImage(engine, img) ==
    Return(EngineResult(engine.msg, <<>>, 0, engine.engine_name))

\* engine.process_image(image_path), dispatched on the class
process_image(engine, img) ==
    IF engine.kind = "dummy"
    THEN DummyProcessImage(engine, img)
    ELSE BaseProcessImage(engine, img)

----------------------------------------------------------------------------
(* OCRProcessor                                                            *)

\* OCRProcessor.__init__: each real engine is registered only if its
\* constructor did not raise; the two dummy engines are always added
OCRProcessor_init(tesseractOk, easyOk) ==
    LET e0 == <<>>
        e1 == IF tesseractOk THEN DictPut(e0, "tesseract", TesseractEngine) ELSE e0
        e2 == IF easyOk THEN DictPut(e1, "easy_ocr", EasyOCREngine) ELSE e1
        e3 == DictPut(e2, "paddle_ocr", DummyEngine("paddle_ocr", PaddleMsg))
    IN  DictPut(e3, "ocropus", DummyEngine("ocropus", OcropusMsg))

\* faulty variant: the typo guard 'net found' is missing
IgnoredValues_NoTypoGuard == { <<"n","o","t"," ","f","o","u","n","d">>, <<>> }

\* the strings a vote ignores: ['not found', 'net found', '']
IgnoredValues ==
    { <<"n","o","t"," ","f","o","u","n","d">>,
      <<"n","e","t"," ","f","o","u","n","d">>,
      <<>> }

\* the inner loop of _determine_best_guess: the dict `values` (value ->
\* tally) after the results from index i on
RECURSIVE Tally(_, _, _, _)
Tally(res, field, i, values) ==
    IF i > Len(res) THEN values
    ELSE LET value == Strip(DictGetOr(res[i].v.structured_data, field, <<>>))
             next  == IF value # <<>> /\ Lower(value) \notin IgnoredValues
                      THEN DictPut(values, value, DictGetOr(values, value, 0) + 1)
                      ELSE values
         IN  Tally(res, field, i + 1, next)

\* faulty variant: the last value seen wins, whatever its tally
MaxByTally_Last(values) == values[Len(values)].k

\* faulty variant: of the items with the highest tally, the last one wins
MaxByTally_LastMax(values) ==
    LET top == {i \in 1..Len(values) :
                    \A j \in 1..Len(values) : values[j].v <= values[i].v}
    IN  values[CHOOSE i \in top : \A j \in top : j <= i].k

\* max(values.items(), key=lambda x: x[1])[0]: the first item, in the
\* dict's order, whose tally no item exceeds
MaxByTally(values) ==
    LET top == {i \in 1..Len(values) :
                    \A j \in 1..Len(values) : values[j].v <= values[i].v}
    IN  values[CHOOSE i \in top : \A j \in top : i <= j].k

\* faulty variant: a field nobody found is left empty
BestValue_EmptyDefault(res, field) ==
    LET values == Tally(res, field, 1, <<>>)
    IN  IF values # <<>> THEN MaxByTally(values) ELSE <<>>

BestValue(res, field) ==
    LET values == Tally(res, field, 1, <<>>)
    IN  IF values # <<>> THEN MaxByTally(values) ELSE NotFoundSentinel

\* OCRProcessor._determine_best_guess
determine_best_guess(res) ==
    [i \in 1..Len(Fields) |-> [k |-> Fields[i], v |-> BestValue(res, Fields[i])]]

\* faulty variant: neither process_image nor process_all catches, so an
\* exception of extract_text leaves process_all
ProcessAllTry_NoBoundary(engine_name, engine, img) ==
    LET ec == extract_with_confidence(engine, img)
    IN  IF ec.tag = "raise" THEN ec ELSE process_image(engine, img)

\* process_all, the try statement of the loop body: the entry stored for an
\* engine (an exception of process_image is caught and becomes an entry)
ProcessAllTry(engine_name, engine, img) ==
    LET r == process_image(engine, img)
    IN  IF r.tag = "raise" THEN Return(ErrorResult(r.exc, engine_name)) ELSE r

\* process_all, after the loop: the report
Report(res) ==
    [best_guess |-> determine_best_guess(res), results_by_engine |-> res]

UnknownEnginePrefix ==
    <<"U","n","k","n","o","w","n"," ","e","n","g","i","n","e",":"," ">>

\* faulty variant: an unknown identifier falls back to the first engine
process_single_Fallback(reg, img, engine_name) ==
    LET name == IF DictHas(reg, engine_name) THEN engine_name ELSE reg[1].k
    IN  [outcome |-> process_image(DictGet(reg, name), img), ran |-> <<name>>]

\* OCRProcessor.process_single: the outcome and the engines that were run
\* (the message ends with the identifier, kept as one item)
process_single(reg, img, engine_name) ==
    IF ~DictHas(reg, engine_name)
    THEN [outcome |-> Raise("ValueError", Append(UnknownEnginePrefix, engine_name)),
          ran     |-> <<>>]
    ELSE [outcome |-> process_image(DictGet(reg, engine_name), img),
          ran     |-> <<engine_name>>]

----------------------------------------------------------------------------
(* The inputs explored: recognised texts, backend failures, images         *)

\* how far past ConfidenceDivisor the longest text goes
MaxExtra == 1

Rep(c, n) == [i \in 1..n |-> c]

TxtEmpty == <<>>

TxtBlank == <<" ", "\n", " ">>

TxtCard ==
    <<"I","D",":"," ","C","2","0","1","0","0","7","4","\n","N","a","m","e",
    ":"," ","J","o","h","n"," ","M","i","c","h","a","e","l"," ","S","m","i",
    "t","h","\n","D","e","p","t",":"," ","C","o","m","p","u","t","e","r",
    " ","S","c","i","e","n","c","e","\n","S","p","r","i","n","g"," ","2",
    "0","2","4","\n","B","l","o","o","d",":"," ","A","+">>

TxtCardAlt ==
    <<"I","D"," ","C","2","0","1","0","0","7","5"," ","D","e","p","t",":",
    " ","E","E","E"," ","S","p","r","i","n","g"," ","2","0","2","4">>

TxtNotFound ==
    <<"D","e","p","t",":"," ","N","o","t"," ","F","o","u","n","d">>

BackendErrMsg ==
    <<"b","a","c","k","e","n","d"," ","f","a","i","l","e","d">>

TxtLongUnder == Rep("x", ConfidenceDivisor - 1)

TxtLongExact == <<" ">> \o Rep("x", ConfidenceDivisor) \o <<"\n">>

TxtLongOver == Rep("x", ConfidenceDivisor + MaxExtra)

ShortTexts == {TxtEmpty, TxtBlank, TxtCard, TxtCardAlt, TxtNotFound}

LongTexts == {TxtLongUnder, TxtLongExact, TxtLongOver}

Texts == ShortTexts \cup LongTexts

\* what a backend can do with a decoded image: return a text, or raise
BackendFailures == {Raise("RuntimeError", m) : m \in {<<>>, BackendErrMsg}}

BackendOutcomes == {Return(t) : t \in ShortTexts} \cup BackendFailures

\* an image cv2.imread cannot decode: no backend is ever handed it
UnreadableImage ==
    [readable |-> FALSE, cvThrows |-> FALSE, tess |-> NoOutcome, easy |-> NoOutcome]

\* the images explored: every pair of short outcomes, and each long text
\* for one backend beside a card text for the other
Images ==
    {UnreadableImage}
    \cup [readable : {TRUE}, cvThrows : BOOLEAN,
          tess : BackendOutcomes, easy : BackendOutcomes]
    \cup [readable : {TRUE}, cvThrows : {FALSE},
          tess : {Return(t) : t \in LongTexts}, easy : {Return(TxtCard)}]
    \cup [readable : {TRUE}, cvThrows : {FALSE},
          tess : {Return(TxtCard)}, easy : {Return(t) : t \in LongTexts}]

\* the identifiers a caller may pass to process_single
EngineNames == {"tesseract", "easy_ocr", "paddle_ocr", "ocropus", "nonexistent"}

----------------------------------------------------------------------------
(* The state machine: the registry is built once; a caller then calls      *)
(* process_all (the for loop runs one engine per step) or process_single,  *)
(* and takes the outcome.                                                  *)

\* TesseractEngine() only stores its name and cannot raise;
\* EasyOCREngine() loads a model (easyocr.Reader) and may raise
Init ==
    /\ \E easyOk \in BOOLEAN : engines = OCRProcessor_init(TRUE, easyOk)
    /\ pc = "idle"
    /\ image = UnreadableImage
    /\ requested = ""
    /\ idx = 0
    /\ results = <<>>
    /\ ret = NoOutcome
    /\ ran = <<>>

\* process_all(image_path) is entered: results = {}
ProcessAllStart ==
    /\ pc = "idle"
    /\ \E img \in Images : image' = img
    /\ pc' = "process_all"
    /\ idx' = 1
    /\ results' = <<>>
    /\ ret' = NoOutcome
    /\ ran' = <<>>
    /\ UNCHANGED <<engines, requested>>

\* one pass of `for engine_name, engine in self.engines.items()`; an
\* exception the loop body does not catch ends process_all
ProcessAllStep ==
    /\ pc = "process_all"
    /\ idx <= Len(engines)
    /\ LET r == ProcessAllTry(engines[idx].k, engines[idx].v, image)
       IN  IF r.tag = "raise"
           THEN /\ ret' = r
                /\ pc' = "returned_all"
                /\ UNCHANGED <<results, idx>>
           ELSE /\ results' = DictPut(results, engines[idx].k, r.value)
                /\ idx' = idx + 1
                /\ UNCHANGED <<ret, pc>>
    /\ ran' = Append(ran, engines[idx].k)
    /\ UNCHANGED <<engines, image, requested>>

\* the loop is over: vote and return the report
ProcessAllReturn ==
    /\ pc = "process_all"
    /\ idx > Len(engines)
    /\ ret' = Return(Report(results))
    /\ pc' = "returned_all"
    /\ UNCHANGED <<engines, image, requested, idx, results, ran>>

\* process_single(image_path, engine_name)
ProcessSingle ==
    /\ pc = "idle"
    /\ \E img \in Images, name \in EngineNames :
          LET r == process_single(engines, img, name)
          IN  /\ image' = img
              /\ requested' = name
              /\ ret' = r.outcome
              /\ ran' = r.ran
    /\ pc' = "returned_single"
    /\ idx' = 0
    /\ results' = <<>>
    /\ UNCHANGED engines

\* the caller has the outcome and is ready for the next request
CallerDone ==
    /\ pc \in {"returned_all", "returned_single"}
    /\ pc' = "idle"
    /\ image' = UnreadableImage
    /\ requested' = ""
    /\ idx' = 0
    /\ results' = <<>>
    /\ ret' = NoOutcome
    /\ ran' = <<>>
    /\ UNCHANGED engines

Next ==
    \/ ProcessAllStart
    \/ ProcessAllStep
    \/ ProcessAllReturn
    \/ ProcessSingle
    \/ CallerDone

Spec == Init /\ [][Next]_vars

----------------------------------------------------------------------------
(* The reconciler on its own: _determine_best_guess is a pure function of  *)
(* the results mapping, applied here to mappings of NumVoteEngines engine  *)
(* results whose fields take values from VotePool.                         *)

NumVoteEngines == 3

VoteNames == <<"e1", "e2", "e3", "e4", "e5", "e6">>

ValA ==
    <<"A","1","2","3","4","5","6","7">>

ValB ==
    <<"B","7","6","5","4","3","2","1">>

ValAPadded ==
    <<" ","A","1","2","3","4","5","6","7","\n">>

ValNotFound ==
    <<"N","o","t"," ","F","o","u","n","d">>

ValNetFound ==
    <<"N","E","T"," ","F","O","U","N","D">>

VotePool == {<<>>, ValA, ValB, ValAPadded, ValNotFound, ValNetFound}

\* a FieldRecord with one field set
OneField(f, val) ==
    [i \in 1..Len(Fields) |-> [k |-> Fields[i], v |-> IF Fields[i] = f THEN val ELSE <<>>]]

\* the structured_data of one engine: {} or a record with ID or Department set
VoteRecords ==
    {<<>>} \cup {OneField(f, val) : f \in {"ID", "Department"}, val \in VotePool}

VoteInputs ==
    {[i \in 1..NumVoteEngines |->
        [k |-> VoteNames[i], v |-> EngineResult(<<>>, sd[i], 0, VoteNames[i])]] :
     sd \in [1..NumVoteEngines -> VoteRecords]}

InitVote ==
    /\ engines = OCRProcessor_init(TRUE, TRUE)
    /\ pc = "vote"
    /\ image = UnreadableImage
    /\ requested = ""
    /\ idx = 0
    /\ results \in VoteInputs
    /\ ret = NoOutcome
    /\ ran = <<>>

\* best_guess = self._determine_best_guess(results)
VoteCall ==
    /\ pc = "vote"
    /\ ret' = Return(determine_best_guess(results))
    /\ pc' = "voted"
    /\ UNCHANGED <<engines, image, requested, idx, results, ran>>

NextVote == VoteCall

SpecVote == InitVote /\ [][NextVote]_vars

----------------------------------------------------------------------------
(* The field parser on its own: parse_id_card_fields is a pure function of *)
(* the recognised text.  A caller asks one real engine for an image whose  *)
(* backends recognise a text of ParseTexts; the entry returned holds the   *)
(* text (raw_text) and what the parser made of it (structured_data).       *)

\* how a card announces the blood type
BloodLabels ==
    { <<"B","l","o","o","d",":"," ">>,
      <<"B","l","o","o","d"," ","G","r","o","u","p",":"," ">>,
      <<"b","l","o","o","d"," ">> }

\* the four groups, two in lower case, and two strings that are no group
BloodGroups ==
    { <<"A">>,
      <<"B">>,
      <<"A","B">>,
      <<"O">>,
      <<"a","b">>,
      <<"o">>,
      <<"|">>,
      <<"C">> }

\* the Rh sign, or none
BloodSigns ==
    { <<"+">>,
      <<"-">>,
      <<>> }

BloodTexts ==
    {l \o g \o s : l \in BloodLabels, g \in BloodGroups, s \in BloodSigns}

\* what precedes the code: nothing, a labeled value, or a word
IdPrefixes ==
    { <<>>,
      <<"I","D",":"," ","A","B","C","D","E","F","9","9"," ">>,
      <<"I","D"," ","N","o",":"," ","1","2","3","4","5","6","7"," ">>,
      <<"N","a","m","e"," ">> }

\* bare codes: none, one, two, one inside a longer token, one a digit short
IdCodes ==
    { <<>>,
      <<"C","2","0","1","0","0","7","4">>,
      <<"x","1","2","3","4","5","6","7"," ","Z","7","6","5","4","3","2","1">>,
      <<"A","B","1","2","3","4","5","6","7">>,
      <<"C","2","0","1","0","0","7">> }

\* what follows the code: nothing, or a labeled value
IdSuffixes ==
    { <<>>,
      <<" ","I","D",":"," ","Q","W","E","R","T","Y","1","2">> }

IdTexts ==
    {p \o c \o s : p \in IdPrefixes, c \in IdCodes, s \in IdSuffixes}

ParseTexts == {TxtCard, TxtCardAlt} \cup BloodTexts \cup IdTexts

\* a decodable image on which both backends recognise the text t
TextImage(t) ==
    [readable |-> TRUE, cvThrows |-> FALSE, tess |-> Return(t), easy |-> Return(t)]

\* process_single(image_path, engine_name) with a real engine's identifier
ParseCall ==
    /\ pc = "idle"
    /\ \E t \in ParseTexts, name \in {"tesseract", "easy_ocr"} :
          LET r == process_single(engines, TextImage(t), name)
          IN  /\ image' = TextImage(t)
              /\ requested' = name
              /\ ret' = r.outcome
              /\ ran' = r.ran
    /\ pc' = "returned_single"
    /\ idx' = 0
    /\ results' = <<>>
    /\ UNCHANGED engines

NextParse ==
    \/ ParseCall
    \/ CallerDone

SpecParse == Init /\ [][NextParse]_vars

----------------------------------------------------------------------------
(* process_all with the per-engine pipelines taken in any order.  The code *)
(* runs them in the registry's order; here the loop body (the code's own)  *)
(* is applied to the registry's items in every order, each result stored   *)
(* when its pipeline completes.  A pipeline is one step: process_image     *)
(* reads its engine and the image and writes nothing another pipeline      *)
(* reads, so an interleaving of two pipelines equals one of their orders.  *)

\* the engines the call in progress (or just returned) has run
RanSet == {ran[i] : i \in 1..Len(ran)}

\* faulty variant: the pipelines share a buffer, and an engine that runs
\* after another returns what the buffer holds, the previous result
ProcessAllStepAny_SharedBuffer ==
    /\ pc = "process_all"
    /\ idx <= Len(engines)
    /\ \E i \in 1..Len(engines) :
          /\ engines[i].k \notin RanSet
          /\ LET r == IF results = <<>>
                      THEN ProcessAllTry(engines[i].k, engines[i].v, image)
                      ELSE Return(results[Len(results)].v)
             IN  IF r.tag = "raise"
                 THEN /\ ret' = r
                      /\ pc' = "returned_all"
                      /\ UNCHANGED <<results, idx>>
                 ELSE /\ results' = DictPut(results, engines[i].k, r.value)
                      /\ idx' = idx + 1
                      /\ UNCHANGED <<ret, pc>>
          /\ ran' = Append(ran, engines[i].k)
    /\ UNCHANGED <<engines, image, requested>>

\* the loop body of process_all for any engine not yet run; idx counts the
\* passes
ProcessAllStepAny ==
    /\ pc = "process_all"
    /\ idx <= Len(engines)
    /\ \E i \in 1..Len(engines) :
          /\ engines[i].k \notin RanSet
          /\ LET r == ProcessAllTry(engines[i].k, engines[i].v, image)
             IN  IF r.tag = "raise"
                 THEN /\ ret' = r
                      /\ pc' = "returned_all"
                      /\ UNCHANGED <<results, idx>>
                 ELSE /\ results' = DictPut(results, engines[i].k, r.value)
                      /\ idx' = idx + 1
                      /\ UNCHANGED <<ret, pc>>
          /\ ran' = Append(ran, engines[i].k)
    /\ UNCHANGED <<engines, image, requested>>

\* the images explored in any order: undecodable, or decoded with every
\* pair of short outcomes
OrderImages ==
    {UnreadableImage}
    \cup [readable : {TRUE}, cvThrows : {FALSE},
          tess : BackendOutcomes, easy : BackendOutcomes]

\* process_all(image_path) is entered: results = {}
ProcessAllStartAny ==
    /\ pc = "idle"
    /\ \E img \in OrderImages : image' = img
    /\ pc' = "process_all"
    /\ idx' = 1
    /\ results' = <<>>
    /\ ret' = NoOutcome
    /\ ran' = <<>>
    /\ UNCHANGED <<engines, requested>>

NextAnyOrder ==
    \/ ProcessAllStartAny
    \/ ProcessAllStepAny
    \/ ProcessAllReturn
    \/ CallerDone

SpecAnyOrder == Init /\ [][NextAnyOrder]_vars

\* the for loop of process_all from item i on, in the registry's order
RECURSIVE ProcessAllLoop(_, _, _, _)
ProcessAllLoop(reg, img, i, res) ==
    IF i > Len(reg) THEN res
    ELSE ProcessAllLoop(reg, img, i + 1,
             DictPut(res, reg[i].k, ProcessAllTry(reg[i].k, reg[i].v, img).value))

\* OCRProcessor.process_all as the code runs it: the report
process_all(reg, img) == Report(ProcessAllLoop(reg, img, 1, <<>>))

----------------------------------------------------------------------------
(* OCRService.process_image_ocr (src/app.py): the caller of process_all    *)
(* reads the entry of each of the four backends from the report.           *)

ServiceKeys == <<"tesseract", "easy_ocr", "paddle_ocr", "ocropus">>

\* ocr_results['results_by_engine'][name] for the four names; a missing key
\* is a KeyError, re-raised as Exception("OCR processing failed: ...")
process_image_ocr(report) ==
    IF \E i \in 1..Len(ServiceKeys) : ~DictHas(report.results_by_engine, ServiceKeys[i])
    THEN Raise("Exception",
               <<CHOOSE i \in 1..Len(ServiceKeys) :
                    /\ ~DictHas(report.results_by_engine, ServiceKeys[i])
                    /\ \A j \in 1..(i - 1) :
                          DictHas(report.results_by_engine, ServiceKeys[j])>>)
    ELSE Return([best_guess |-> report.best_guess,
                 results_by_engine |->
                    [i \in 1..Len(ServiceKeys) |->
                        [k |-> ServiceKeys[i],
                         v |-> DictGet(report.results_by_engine,
                                       ServiceKeys[i]).structured_data]]])

----------------------------------------------------------------------------
(* Properties                                                              *)

\* the report's results_by_engine, once process_all has returned
ReportEntries == ret.value.results_by_engine

\* every EngineResult handed to a caller by the call that has just returned
ReturnedResults ==
    IF pc = "returned_all"
    THEN {ReportEntries[i].v : i \in 1..Len(ReportEntries)}
    ELSE IF pc = "returned_single" /\ ret.tag = "return"
         THEN {ret.value}
         ELSE {}

\* the image with one backend's behaviour replaced by outcome o
WithBackend(img, kind, o) ==
    IF kind = "tesseract" THEN [img EXCEPT !.tess = o]
    ELSE IF kind = "easy_ocr" THEN [img EXCEPT !.easy = o]
    ELSE img

\* C1: engine isolation.  When process_all has returned and the
\* extract_text of a registered engine raised, the report holds for that
\* engine a degraded entry (a non-empty raw_text carrying the error message,
\* confidence 0.0), and every other engine's entry is the entry it has for
\* the same image when the failing engine's backend succeeds or fails in
\* any other way.
C1_EngineIsolation ==
    pc = "returned_all" =>
        /\ ret.tag = "return"
        /\ \A i \in 1..Len(engines) :
              LET e == engines[i]
                  t == extract_text(e.v, image)
              IN  t.tag = "raise" =>
                    /\ DictHas(ReportEntries, e.k)
                    /\ DictGet(ReportEntries, e.k).confidence = 0
                    /\ DictGet(ReportEntries, e.k).raw_text # <<>>
                    /\ Contains(DictGet(ReportEntries, e.k).raw_text, t.exc.msg)
                    /\ \A j \in 1..Len(engines) : j # i =>
                          /\ DictHas(ReportEntries, engines[j].k)
                          /\ \A o \in BackendOutcomes :
                                Return(DictGet(ReportEntries, engines[j].k)) =
                                    ProcessAllTry(engines[j].k, engines[j].v,
                                                  WithBackend(image, e.v.kind, o))

\* C1 witness: tesseract's backend raised on a readable image while easy_ocr
\* read the card, and easy_ocr's entry carries its text
C1_Witness ==
    /\ pc = "returned_all"
    /\ image.readable
    /\ image.tess.tag = "raise"
    /\ image.tess.exc.msg = BackendErrMsg
    /\ image.easy = Return(TxtCard)
    /\ DictHas(ReportEntries, "easy_ocr")
    /\ DictGet(ReportEntries, "easy_ocr").raw_text = TxtCard
    /\ DictGet(ReportEntries, "tesseract").confidence = 0

\* C2: unreadable image.  For an image cv2.imread cannot decode,
\* process_single of tesseract or easy_ocr returns (does not raise) a result
\* with confidence 0.0 and a non-empty raw_text, and process_all returns a
\* report with the 7 best_guess fields and one entry per registered engine,
\* the entries of tesseract and easy_ocr being of that degraded form.
C2_UnreadableImage ==
    ~image.readable =>
        /\ (/\ pc = "returned_single"
            /\ DictHas(engines, requested)
            /\ DictGet(engines, requested).kind # "dummy")
           => /\ ret.tag = "return"
              /\ ret.value.confidence = 0
              /\ ret.value.raw_text # <<>>
        /\ pc = "returned_all"
           => /\ ret.tag = "return"
              /\ DictKeys(ret.value.best_guess) = Fields
              /\ DictKeys(ReportEntries) = DictKeys(engines)
              /\ \A i \in 1..Len(ReportEntries) :
                    engines[i].v.kind # "dummy" =>
                        /\ ReportEntries[i].v.confidence = 0
                        /\ ReportEntries[i].v.raw_text # <<>>

\* C2 witness: process_all has returned for an unreadable image with both
\* real engines registered
C2_Witness ==
    /\ pc = "returned_all"
    /\ ~image.readable
    /\ DictHas(engines, "tesseract")
    /\ DictHas(engines, "easy_ocr")
    /\ Len(ReportEntries) = 4

\* the value an engine result contributes to the vote on a field
VoteValue(res, i, f) == Strip(DictGetOr(res[i].v.structured_data, f, <<>>))

\* the lower-case forms of the not-found strings
NotFoundForms ==
    { <<"n","o","t"," ","f","o","u","n","d">>,
      <<"n","e","t"," ","f","o","u","n","d">> }

\* the values of a field that survive the filter
Surviving(res, f) ==
    {VoteValue(res, i, f) : i \in 1..Len(res)}
        \ ({<<>>} \cup {v \in {VoteValue(res, i, f) : i \in 1..Len(res)} :
                            Lower(v) \in NotFoundForms})

\* the number of engines whose value for the field is v
TallyOf(res, f, v) == Cardinality({i \in 1..Len(res) : VoteValue(res, i, f) = v})

\* C3: plurality vote.  For every field with a surviving value, the best
\* guess the reconciler returns is a surviving value whose tally is at least
\* the tally of every other surviving value of that field.
C3_Plurality ==
    pc = "voted" =>
        \A f \in FieldSet :
            Surviving(results, f) # {} =>
                LET b == DictGet(ret.value, f)
                IN  /\ b \in Surviving(results, f)
                    /\ \A w \in Surviving(results, f) :
                          TallyOf(results, f, b) >= TallyOf(results, f, w)

\* C3 witness: the engines report ID values Y, X, X and the best guess is X
C3_Witness ==
    /\ pc = "voted"
    /\ results[1].v.structured_data = OneField("ID", ValB)
    /\ results[2].v.structured_data = OneField("ID", ValA)
    /\ results[3].v.structured_data = OneField("ID", ValA)
    /\ DictGet(ret.value, "ID") = ValA

\* C4: best-guess sentinel.  For every field for which each engine's value
\* is missing, empty after trimming, or equal ignoring case to "not found"
\* or "net found", the best guess is exactly "Not Found".
C4_Sentinel ==
    pc = "voted" =>
        \A f \in FieldSet :
            (\A i \in 1..Len(results) :
                \/ ~DictHas(results[i].v.structured_data, f)
                \/ Strip(DictGet(results[i].v.structured_data, f)) = <<>>
                \/ Lower(DictGet(results[i].v.structured_data, f)) \in NotFoundForms)
            => DictGet(ret.value, f) = NotFoundSentinel

\* C4 witness: Department is "Not Found", "NET FOUND" and missing (a degraded
\* result) in the three engine results, and the best guess is the sentinel
C4_Witness ==
    /\ pc = "voted"
    /\ results[1].v.structured_data = OneField("Department", ValNotFound)
    /\ results[2].v.structured_data = OneField("Department", ValNetFound)
    /\ results[3].v.structured_data = <<>>
    /\ DictGet(ret.value, "Department") = NotFoundSentinel

\* C5: in every report of process_all, best_guess has exactly the 7 field
\* names as keys, and each value is "Not Found" or a non-empty value that
\* some engine of the report holds, after trimming, for the same field.
C5_BestGuessComplete ==
    pc = "returned_all" =>
        /\ DictKeys(ret.value.best_guess) = Fields
        /\ \A i \in 1..Len(ret.value.best_guess) :
              LET f == ret.value.best_guess[i].k
                  b == ret.value.best_guess[i].v
              IN  \/ b = NotFoundSentinel
                  \/ /\ b # <<>>
                     /\ \E j \in 1..Len(ReportEntries) :
                           /\ DictHas(ReportEntries[j].v.structured_data, f)
                           /\ Strip(DictGet(ReportEntries[j].v.structured_data, f)) = b

\* C5 witness: a report mixing a successful, a degraded and two inert
\* results, with a recovered ID and a field nobody found
C5_Witness ==
    /\ pc = "returned_all"
    /\ image.readable
    /\ image.tess = Return(TxtCard)
    /\ image.easy.tag = "raise"
    /\ Len(ReportEntries) = 4
    /\ DictGet(ret.value.best_guess, "ID") = <<"C","2","0","1","0","0","7","4">>
    /\ DictGet(ret.value.best_guess, "Validity") = NotFoundSentinel

\* C6: the structured_data of every EngineResult handed to a caller by
\* process_single or process_all has exactly the 7 field names as keys.
C6_SevenKeys ==
    \A r \in ReturnedResults : DictKeys(r.structured_data) = Fields

\* C7: process_single with an identifier that is not a registry key raises
\* the unknown-engine ValueError and runs no engine; with a registered
\* identifier it returns that engine's process_image result (an
\* EngineResult, not a report) and runs that engine alone.
C7_ProcessSingle ==
    pc = "returned_single" =>
        IF ~DictHas(engines, requested)
        THEN /\ ret.tag = "raise"
             /\ ret.exc.type = "ValueError"
             /\ ret.exc.msg = Append(UnknownEnginePrefix, requested)
             /\ ran = <<>>
        ELSE /\ ret.tag = "return"
             /\ ran = <<requested>>
             /\ ret.value.engine = requested
             /\ DOMAIN ret.value =
                    {"raw_text", "structured_data", "confidence", "engine"}
             /\ ret = process_image(DictGet(engines, requested), image)

\* C7 witness: process_single was asked for an unregistered identifier and
\* the caller holds the error
C7_Witness ==
    /\ pc = "returned_single"
    /\ requested = "nonexistent"
    /\ ret.tag = "raise"
    /\ ran = <<>>

\* C8: the registry has an adapter under each of tesseract, easy_ocr,
\* paddle_ocr and ocropus whichever constructor failed, every report has an
\* entry for each, and the service reading the four entries succeeds.
C8_AllBackends ==
    /\ \A i \in 1..Len(ServiceKeys) : DictHas(engines, ServiceKeys[i])
    /\ pc = "returned_all" =>
          /\ \A i \in 1..Len(ServiceKeys) : DictHas(ReportEntries, ServiceKeys[i])
          /\ process_image_ocr(ret.value).tag = "return"

\* the state part of C9
C9_KeysMatch ==
    pc = "returned_all" =>
        /\ DictKeys(ReportEntries) = DictKeys(engines)
        /\ Cardinality(KeySet(ReportEntries)) = Len(ReportEntries)
        /\ \A i \in 1..Len(ReportEntries) :
              ReportEntries[i].v.engine = ReportEntries[i].k

\* C9: the keys of results_by_engine are exactly the registry's keys, one
\* entry each, every entry's engine field equals its key, and no step of
\* process_all or process_single changes the registry.
C9_ReportKeys == []C9_KeysMatch /\ [][engines' = engines]_vars

\* C9 witness: a report of the full registry (both real engines registered)
C9_Witness ==
    /\ pc = "returned_all"
    /\ DictKeys(engines) = ServiceKeys
    /\ DictKeys(ReportEntries) = ServiceKeys

\* the default confidence of every text explored: within [0.0, 1.0], 0.0 for
\* a text empty after trimming, 1.0 from 1000 trimmed characters on
C10_DefaultBounds ==
    \A t \in Texts :
        /\ DefaultConfidence(t) >= 0
        /\ DefaultConfidence(t) <= ConfidenceDivisor
        /\ (\A i \in 1..Len(t) : t[i] \in Space) => DefaultConfidence(t) = 0
        /\ Len(Strip(t)) >= ConfidenceDivisor => DefaultConfidence(t) = ConfidenceDivisor

\* C10: confidence bounds.  The default confidence lies in [0.0, 1.0], is
\* 0.0 for an empty or all-whitespace text and 1.0 for a trimmed length of
\* 1000 or more; every EngineResult handed to a caller has a confidence in
\* [0.0, 1.0], and exactly 0.0 when its engine failed or is inert.
C10_ConfidenceBounds ==
    /\ C10_DefaultBounds
    /\ \A r \in ReturnedResults :
          /\ r.confidence >= 0
          /\ r.confidence <= ConfidenceDivisor
          /\ \A i \in 1..Len(engines) :
                (/\ engines[i].k = r.engine
                 /\ \/ engines[i].v.kind = "dummy"
                    \/ extract_text(engines[i].v, image).tag = "raise")
                => r.confidence = 0

\* C10 witness: a report with a text longer than 1000 characters scored 1.0
\* beside an inert result scored 0.0
C10_Witness ==
    /\ pc = "returned_all"
    /\ image.tess = Return(TxtLongOver)
    /\ DictGet(ReportEntries, "tesseract").confidence = ConfidenceDivisor
    /\ DictGet(ReportEntries, "paddle_ocr").confidence = 0

\* the text a returned entry was parsed from, and the fields parsed from it
ParsedEntries ==
    {r \in ReturnedResults : r.raw_text \in ParseTexts}

ValJohnMichaelSmith ==
    <<"J","o","h","n"," ","M","i","c","h","a","e","l"," ","S","m","i","t",
    "h">>

ValComputerScience ==
    <<"C","o","m","p","u","t","e","r"," ","S","c","i","e","n","c","e">>

ValSpring2024 ==
    <<"S","p","r","i","n","g"," ","2","0","2","4">>

ValC2010074 ==
    <<"C","2","0","1","0","0","7","4">>

ValAPlus ==
    <<"A","+">>

\* the record the card scenario expects for TxtCard
CardExpected ==
    <<[k |-> "ID", v |-> ValC2010074],
      [k |-> "FullName", v |-> ValJohnMichaelSmith],
      [k |-> "University", v |-> <<>>],
      [k |-> "Department", v |-> ValComputerScience],
      [k |-> "Enrollment", v |-> ValSpring2024],
      [k |-> "BloodGroup", v |-> ValAPlus],
      [k |-> "Validity", v |-> <<>>]>>

\* C11: labeled fields stay on their line.  Whenever an engine has returned
\* an entry for a recognised text, the Department parsed from it holds no
\* line break, and the entry for the card text TxtCard holds exactly the
\* record CardExpected (Department "Computer Science").
C11_OwnLineOnly ==
    \A r \in ParsedEntries :
        /\ ~Contains(DictGet(r.structured_data, "Department"), <<"\n">>)
        /\ r.raw_text = TxtCard => r.structured_data = CardExpected

\* C12: a failed decode is not silent.  Whenever the tesseract pipeline has
\* run on an image, preprocess_image of an image that cannot be decoded
\* raises an image-decode error (ValueError) to its caller, and
\* preprocess_image returns the grayscale re-read only for an image that
\* was decoded and on which a later step threw.
C12_DecodeErrorReachesCaller ==
    "tesseract" \in RanSet =>
        LET p == preprocess_image(image) IN
        /\ ~image.readable => (p.tag = "raise" /\ p.exc.type = "ValueError")
        /\ (p.tag = "return" /\ p.value = imread_gray(image)) =>
              (image.readable /\ image.cvThrows)

\* two dicts hold the same items, whatever their order
SameMapping(d, e) ==
    /\ KeySet(d) = KeySet(e)
    /\ \A k \in KeySet(d) : DictGet(d, k) = DictGet(e, k)

\* the surviving values of field f with the highest tally in res
TopValues(res, f) ==
    {v \in Surviving(res, f) :
        \A w \in Surviving(res, f) : TallyOf(res, f, w) <= TallyOf(res, f, v)}

\* the position in res of the first engine whose value for field f is v
FirstIndex(res, f, v) ==
    CHOOSE i \in 1..Len(res) :
        /\ VoteValue(res, i, f) = v
        /\ \A j \in 1..(i - 1) : VoteValue(res, j, f) # v

C14_TieBreakFirstSeen ==
    pc = "voted" =>
        \A f \in FieldSet :
            LET top == TopValues(results, f)
                b   == DictGet(ret.value, f)
            IN  Cardinality(top) >= 2 =>
                    /\ b \in top
                    /\ \A w \in top \ {b} :
                          FirstIndex(results, f, b) < FirstIndex(results, f, w)

\* the first engine read ValB, a later one ValA, each once: ValB is kept
C14_Witness ==
    /\ pc = "voted"
    /\ TopValues(results, "ID") = {ValA, ValB}
    /\ VoteValue(results, 1, "ID") = ValB
    /\ DictGet(ret.value, "ID") = ValB

\* the eight blood types
BloodTypes ==
    {g \o s : g \in {<<"A">>, <<"B">>, <<"A","B">>, <<"O">>},
              s \in {<<"+">>, <<"-">>}}

\* C15: BloodGroup is one of the eight types.  Whenever an engine has
\* returned an entry for a recognised text, its BloodGroup is empty or one
\* of the eight types, and for a text made of a `Blood:` or `Blood Group:`
\* label followed by one of the eight types it is that type in full.
C15_BloodGroupTypes ==
    \A r \in ParsedEntries :
        LET v == DictGet(r.structured_data, "BloodGroup") IN
        /\ v \in BloodTypes \cup {<<>>}
        /\ \A l \in BloodLabels, b \in BloodTypes :
              ((\E i \in 1..Len(l) : l[i] = ":") /\ r.raw_text = l \o b) => v = b

\* the positions of text t where a letter is followed by seven digits
BareCodeStarts(t) ==
    {i \in 1..Len(t) : t[i] \in Letter /\ DigitsAt(t, i + 1, 7)}

\* C16: the bare code comes first.  Whenever an engine has returned an
\* entry for a recognised text: if the text holds a letter immediately
\* followed by seven digits, ID is the first such eight characters,
\* whatever a labeled value says; otherwise ID is the value after `ID`
\* when that rule matches, else the value after `ID No`, else empty.
C16_IdPrecedence ==
    \A r \in ParsedEntries :
        LET t      == r.raw_text
            id     == DictGet(r.structured_data, "ID")
            starts == BareCodeStarts(t)
            first  == CHOOSE i \in starts : \A j \in starts : i <= j
            m2     == Search(t, IdLabelAt)
            m3     == Search(t, IdNoLabelAt)
        IN  /\ starts # {} => id = SubSeq(t, first, first + 7)
            /\ (starts = {} /\ m2.ok) => id = m2.g1
            /\ (starts = {} /\ ~m2.ok /\ m3.ok) => id = m3.g1
            /\ (starts = {} /\ ~m2.ok /\ ~m3.ok) => id = <<>>

\* an entry whose text holds a labeled value before a bare code: the bare
\* code is the ID although the `ID` rule matches the labeled value
C16_Witness ==
    \E r \in ParsedEntries :
        /\ BareCodeStarts(r.raw_text) # {}
        /\ Search(r.raw_text, IdLabelAt).ok
        /\ Search(r.raw_text, IdLabelAt).g1 # DictGet(r.structured_data, "ID")
        /\ DictGet(r.structured_data, "ID") = ValC2010074

====
